---- MODULE Spec2Model ----
(***************************************************************************)
(* FPS Keys Trainer (src/fpsKbdTrainer.js): the statistics store, the      *)
(* weighted key selection and the round controller, as a state machine.    *)
(*                                                                         *)
(* Numbers are exact: an average totalTime/successes is kept as a fraction *)
(* and every comparison of the selection walk is made on values scaled by  *)
(* the common denominator, so no rounding of the division enters.          *)
(* Time is measured from the latest prompt: nextRound sets promptTime to   *)
(* 0 and a key event carries the clock reading of its handler.             *)
(***************************************************************************)
EXTENDS Integers, Sequences, FiniteSets, TLC

VARIABLES
    stats,          \* the in-memory stats object: key -> KeyStat, meta -> gamesPlayed
    round,          \* let round
    currentKey,     \* let currentKey (NoKey is null)
    promptTime,     \* let promptTime (Null before the first prompt)
    reactionTimes,  \* const reactionTimes: the rolling window
    resultsLog,     \* const resultsLog: the round result messages
    file,           \* the content of stats.json
    timers,         \* number of pending setTimeout(nextRound, 100) callbacks
    proc,           \* "init" | "running" | "exited" | "crashed"
    loadedGames,    \* history: stats.meta.gamesPlayed as loaded at startup
    draw,           \* SpecChoose: the weights, the draw and the index chooseNextKey's walk returns
    truncated,      \* SpecTruncate: a string, a width and what truncateAnsiPreserve returns
    terminal,       \* process.stdout.rows and process.stdout.columns
    screen          \* SpecRender: what the latest renderUI wrote, by row and column

vars == <<stats, round, currentKey, promptTime, reactionTimes, resultsLog,
          file, timers, proc, loadedGames, draw,
                   truncated, terminal, screen>>

(***************************************************************************)
(* Bounds and input domains.                                               *)
(***************************************************************************)
\* rounds started in one session of Spec
MaxRounds == 3
\* rounds started in one session of SpecWindow
MaxWindowRounds == 5

\* null of a nullable number (bestTime, worstTime, promptTime)
Null == 0 - 1
\* null of currentKey
NoKey == "null"
\* the str argument of a keypress that carries no character
Undefined == "undefined"
\* key.sequence of Ctrl+C
CtrlC == "\\u0003"

\* const keys
keys == <<"q", "e", "r", "t", "f", "g", "c", "x", "z">>

KeySet == {keys[i] : i \in 1..Len(keys)}

\* String.prototype.toUpperCase on the characters the model types
toUpperCase(c) ==
    CASE c = "q" -> "Q" [] c = "e" -> "E" [] c = "r" -> "R" [] c = "t" -> "T"
      [] c = "f" -> "F" [] c = "g" -> "G" [] c = "c" -> "C" [] c = "x" -> "X"
      [] c = "z" -> "Z" [] c = "a" -> "A" [] OTHER -> c

\* Math.random() as a fraction <<numerator, denominator>> in [0, 1)
RandomValues == {<<0, 1>>, <<1, 2>>}

\* keypress events (str, key): key.sequence, str and the clock reading of the handler
KeyEvent(seq, s, t) == [sequence |-> seq, str |-> s, now |-> t]

KeyEvents ==
    {KeyEvent(CtrlC, CtrlC, 50)}
    \cup {KeyEvent("q", "q", t) : t \in {80, 120, 200}}
    \cup {KeyEvent("f", "f", 120), KeyEvent("a", "a", 200)}
    \cup {KeyEvent("\\x1b[A", Undefined, 120)}

\* fs.writeFileSync returns (TRUE) or throws (FALSE)
WriteOutcomes == BOOLEAN

(***************************************************************************)
(* Startup: the stats load, lines 17-39.                                   *)
(***************************************************************************)
ZeroStat == [attempts |-> 0, successes |-> 0, totalTime |-> 0, errors |-> 0,
             bestTime |-> Null, worstTime |-> Null]

(***************************************************************************)
(* JSON.  A JSON text is held as its value tree: "object" with members,    *)
(* "array" with items, "number" with a value, "string", "null", and        *)
(* "invalid" for a text JSON.parse rejects.  In memory a number is an      *)
(* integer, null is Null, an object is a function of its keys, and an      *)
(* array is an object that carries its items under ArrayItems.             *)
(***************************************************************************)
\* the key under which an in-memory array keeps its indexed items
ArrayItems == "@items"

JsonNull == [type |-> "null"]

JsonNumber(n) == [type |-> "number", value |-> n]

JsonString(str) == [type |-> "string", value |-> str]

JsonObject(members) == [type |-> "object", members |-> members]

JsonArray(items) == [type |-> "array", items |-> items]

JsonInvalid == [type |-> "invalid"]

\* JSON.stringify of a number or null
StringifyField(v) == IF v = Null THEN JsonNull ELSE JsonNumber(v)

\* JSON.stringify of a KeyStat or of the meta entry
StringifyEntry(e) == JsonObject([f \in DOMAIN e |-> StringifyField(e[f])])

\* line 218: JSON.stringify(stats, null, 2): an array is written as its indexed
\* items alone, any other object as all its members
JSONstringify(s) ==
    IF ArrayItems \in DOMAIN s
    THEN JsonArray(s[ArrayItems])
    ELSE JsonObject([k \in DOMAIN s |-> StringifyEntry(s[k])])

\* JSON.parse of a number or null
ParseField(j) == IF j.type = "null" THEN Null ELSE j.value

\* JSON.parse of a KeyStat or of the meta entry
ParseEntry(j) == [f \in DOMAIN j.members |-> ParseField(j.members[f])]

\* line 21: JSON.parse of a text that is valid JSON
JSONparse(j) ==
    CASE j.type = "object" -> [k \in DOMAIN j.members |-> ParseEntry(j.members[k])]
      [] j.type = "array" -> [k \in {ArrayItems} |-> j.items]
      [] j.type = "null" -> Null
      [] OTHER -> j.value

\* stats.json: absent, or a JSON text
NoFile == [exists |-> FALSE]

FileWith(json) == [exists |-> TRUE, json |-> json]

\* the file saveStats writes for the stats object s
FileOf(s) == FileWith(JSONstringify(s))

\* the stats object with one KeyStat per key and the meta entry
StatsObject(perKey, games) ==
    [k \in KeySet \cup {"meta"} |->
        IF k = "meta" THEN [gamesPlayed |-> games] ELSE perKey[k]]

\* the files a session may start from
InitialFiles ==
    {NoFile, FileOf(StatsObject([k \in KeySet |-> ZeroStat], 2))}

\* let stats = {}
EmptyObject == [k \in {} |-> 0]

\* lines 18-25: JSON.parse of the file when it exists and parses, else the empty object
ParsedFile(f) ==
    IF f.exists /\ f.json.type # "invalid" THEN JSONparse(f.json) ELSE EmptyObject

\* lines 26-27: stats.meta on null, or the assignment stats.meta = {...} on a
\* number or a string in an ES module, throws a TypeError
LoadThrows(f) == f.exists /\ f.json.type \in {"null", "number", "string"}

\* lines 33-38: a missing key gets a zeroed KeyStat, a missing time gets null
LoadKeyStat(parsed, k) ==
    IF k \notin DOMAIN parsed THEN ZeroStat
    ELSE [f \in DOMAIN parsed[k] \cup {"bestTime", "worstTime"} |->
            IF f \in DOMAIN parsed[k] THEN parsed[k][f] ELSE Null]

\* lines 18-39: the stats object after startup, for a file the load does not throw on
LoadStats(f) ==
    LET parsed == ParsedFile(f)
    IN  [k \in DOMAIN parsed \cup KeySet \cup {"meta"} |->
            IF k = "meta"
            THEN IF "meta" \in DOMAIN parsed THEN parsed.meta ELSE [gamesPlayed |-> 0]
            ELSE IF k \in KeySet THEN LoadKeyStat(parsed, k)
            ELSE parsed[k]]

(***************************************************************************)
(* The terminal layout.  A string is the sequence of its characters, each  *)
(* a one-character string; ESC stands for the character \x1B.               *)
(***************************************************************************)

\* line 49
leftColumnWidth == 60

\* line 50
leftColumnHeight == 22

\* lines 52-54
getRightColumnStart == leftColumnWidth + 2

\* lines 56-58, for a terminal of the given number of columns
getRightColumnWidth(columns) == columns - leftColumnWidth - 1

ESC == "ESC"

\* the ellipsis character of line 75
Ellipsis == "..."

\* the characters of the class [0-9;] of the regular expressions of lines 62 and 73
SgrParams == {"0", "1", "2", "3", "4", "5", "6", "7", "8", "9", ";"}

\* the first index from i on whose character is not in [0-9;] (Len(s) + 1 if none)
RECURSIVE SkipParams(_, _)
SkipParams(s, i) ==
    IF i <= Len(s) /\ s[i] \in SgrParams THEN SkipParams(s, i + 1) ELSE i

\* the index of the last character of a match of \x1B\[[0-9;]*m that starts at
\* index i of s, or 0 when none starts there
SgrEnd(s, i) ==
    IF i + 1 <= Len(s) /\ s[i] = ESC /\ s[i + 1] = "["
    THEN LET j == SkipParams(s, i + 2)
         IN  IF j <= Len(s) /\ s[j] = "m" THEN j ELSE 0
    ELSE 0

\* str.replace(/\x1B\[[0-9;]*m/g, '') from index i on: matches are removed from
\* left to right
RECURSIVE StripFrom(_, _)
StripFrom(s, i) ==
    IF i > Len(s) THEN <<>>
    ELSE IF SgrEnd(s, i) > 0 THEN StripFrom(s, SgrEnd(s, i) + 1)
    ELSE <<s[i]>> \o StripFrom(s, i + 1)

\* stripAnsi, lines 61-63
stripAnsi(str) == StripFrom(str, 1)

\* the index of the last character of the match of ^((?:\x1B\[[0-9;]*m)+),
\* continued from index i; i - 1 when no further style sequence starts at i
RECURSIVE PrefixEnd(_, _)
PrefixEnd(s, i) ==
    IF SgrEnd(s, i) > 0 THEN PrefixEnd(s, SgrEnd(s, i) + 1) ELSE i - 1

\* lines 73-74: the leading run of style sequences of str, "" when there is none
LeadingStyles(str) == SubSeq(str, 1, PrefixEnd(str, 1))

\* Array.prototype.slice and String.prototype.slice: a negative index counts
\* from the end, and both indices are clamped to 0..length
SliceIndex(n, len) ==
    IF n < 0 THEN (IF len + n < 0 THEN 0 ELSE len + n)
    ELSE IF n > len THEN len ELSE n

slice(s, start, end) ==
    SubSeq(s, SliceIndex(start, Len(s)) + 1, SliceIndex(end, Len(s)))

\* slice with one argument: to the end
sliceFrom(s, start) == slice(s, start, Len(s))

\* String.prototype.repeat and padEnd with a one-character filler
repeat(ch, n) == [i \in 1..n |-> ch]

padEnd(s, width, ch) ==
    IF width > Len(s) THEN s \o repeat(ch, width - Len(s)) ELSE s

\* padAnsi, lines 65-68
padAnsi(str, width) ==
    LET diff == width - Len(stripAnsi(str))
    IN  IF diff > 0 THEN str \o repeat(" ", diff) ELSE str

\* truncateAnsiPreserve, lines 70-76
truncateAnsiPreserve(str, width) ==
    LET plain == stripAnsi(str)
    IN  IF Len(plain) <= width THEN str
        ELSE LeadingStyles(str) \o slice(plain, 0, width - 1) \o <<Ellipsis>>

\* the box-drawing characters of lines 203 and 197
HorizontalRule == "-"
VerticalBar == "|"

\* chalk.bgMagenta.black.bold(" Round Results "), line 202
RoundResultsTitle ==
    <<ESC, "[", "4", "5", "m", ESC, "[", "3", "0", "m", ESC, "[", "1", "m">>
        \o <<" ", "R", "o", "u", "n", "d", " ", "R", "e", "s", "u", "l", "t", "s", " ">>
        \o <<ESC, "[", "2", "2", "m", ESC, "[", "3", "9", "m", ESC, "[", "4", "9", "m">>

\* lines 201-208: the lines of the right column for a log and a terminal
RightLines(log, term) ==
    LET width == getRightColumnWidth(term.columns)
        availableLogLines == term.rows - 2
        logSlice == sliceFrom(log, 0 - availableLogLines)
    IN  <<padAnsi(RoundResultsTitle, width), padEnd(<<>>, width, HorizontalRule)>>
            \o [i \in 1..Len(logSlice) |-> truncateAnsiPreserve(logSlice[i], width)]

\* renderUI, lines 141-213: what it writes after clearing the screen, as the
\* cursor addresses of its writes. left: the leftColumnHeight lines of the left
\* column (191-194, their text is not part of the model); separator: the bars
\* of 196-198; right: the lines of the right column (210-212).
renderUI(log, term) ==
    [left |-> {[row |-> i + 1, column |-> 1] : i \in 0..(leftColumnHeight - 1)},
     separator |-> {[row |-> i, column |-> leftColumnWidth + 1, text |-> VerticalBar] :
                        i \in 1..leftColumnHeight},
     right |-> LET rightLines == RightLines(log, term)
               IN  [i \in 1..Len(rightLines) |->
                        [row |-> i, column |-> getRightColumnStart, text |-> rightLines[i]]]]

\* nothing has been truncated on its own
NoLine == [str |-> <<>>, width |-> 0, result |-> <<>>]

\* the size of the terminal of the sessions that do not look at the screen
DefaultTerminal == [rows |-> 24, columns |-> 80]

\* nothing has been written to the terminal
Blank == [left |-> {}, separator |-> {}, right |-> <<>>]

\* the state of the layout in the specifications that do not exercise it
NoRender ==
    /\ truncated = NoLine
    /\ terminal = DefaultTerminal
    /\ screen = Blank

\* no walk has been run on its own
NoDraw == [weights |-> <<>>, rnd |-> 0, index |-> 0]

Init ==
    /\ file \in InitialFiles
    /\ stats = LoadStats(file)
    /\ round = 0
    /\ currentKey = NoKey
    /\ promptTime = Null
    /\ reactionTimes = <<>>
    /\ resultsLog = <<>>
    /\ timers = 0
    /\ proc = "init"
    /\ loadedGames = stats.meta.gamesPlayed
    /\ draw = NoDraw
    /\ NoRender

(***************************************************************************)
(* SelectionEngine: getKeyWeight and chooseNextKey, lines 224-240.         *)
(***************************************************************************)
\* line 226: the average used for a key without successes
DefaultAvgTime == 500
\* line 227: weight added per error
ErrorPenalty == 100
\* line 228: the constant floor of a weight
WeightFloor == 100

\* a weight without the constant floor
KeyWeightNoFloor(s) ==
    IF s.successes > 0
    THEN <<s.totalTime + (s.errors * ErrorPenalty) * s.successes, s.successes>>
    ELSE <<DefaultAvgTime + s.errors * ErrorPenalty, 1>>

\* getKeyWeight over a KeyStat, as the fraction <<numerator, denominator>>:
\* totalTime / successes (or 500) + errors * 100 + 100
KeyWeightOf(s) ==
    IF s.successes > 0
    THEN <<s.totalTime + (s.errors * ErrorPenalty + WeightFloor) * s.successes, s.successes>>
    ELSE <<DefaultAvgTime + s.errors * ErrorPenalty + WeightFloor, 1>>

getKeyWeight(key) == KeyWeightOf(stats[key])

RECURSIVE Product(_, _)
Product(f, n) == IF n = 0 THEN 1 ELSE f[n] * Product(f, n - 1)

RECURSIVE Sum(_, _)
Sum(f, n) == IF n = 0 THEN 0 ELSE f[n] + Sum(f, n - 1)

\* line 232: keys.map(getKeyWeight), as fractions
KeyWeights == [i \in 1..Len(keys) |-> getKeyWeight(keys[i])] \o <<>>

\* the common denominator of the weights of all keys
WeightDen(w) == Product([i \in 1..Len(w) |-> w[i][2]], Len(w))

\* line 232: the weights, each multiplied by the common denominator (an integer)
Weights ==
    LET w == KeyWeights
        den == WeightDen(w)
    IN  [i \in 1..Len(keys) |-> w[i][1] * (den \div w[i][2])] \o <<>>

\* line 233
TotalWeight(weights) == Sum(weights, Len(weights))

\* a walk that compares the draw with each weight without subtracting the
\* weights it has passed
RECURSIVE WalkNoSubtract(_, _, _)
WalkNoSubtract(weights, rnd, i) ==
    IF i > Len(weights) THEN Len(weights)
    ELSE IF rnd - weights[i] <= 0 THEN i ELSE WalkNoSubtract(weights, rnd, i + 1)

\* lines 235-239: subtract each weight in turn, return the first index at which the
\* remainder is <= 0, and the last index when the loop ends without returning
RECURSIVE WalkWeights(_, _, _)
WalkWeights(weights, rnd, i) ==
    IF i > Len(weights) THEN Len(weights)
    ELSE LET rest == rnd - weights[i]
         IN  IF rest <= 0 THEN i ELSE WalkWeights(weights, rest, i + 1)

\* chooseNextKey with Math.random() = u[1] / u[2]; weights and rnd scaled by u[2]
chooseNextKey(u) ==
    LET base == Weights
        weights == [i \in 1..Len(keys) |-> base[i] * u[2]] \o <<>>
        rnd == u[1] * TotalWeight(base)
    IN  keys[WalkWeights(weights, rnd, 1)]

(***************************************************************************)
(* Analysis helpers, lines 79-93.  A toFixed(1) result is held in tenths.  *)
(***************************************************************************)
NA == 0 - 1

\* a conversion that cuts the digits after the first decimal off
ToFixed1Truncates(n, d) == (10 * n) \div d

\* (n / d).toFixed(1) in tenths, for n >= 0 and d > 0: the nearest tenth, a tie
\* going up
ToFixed1(n, d) == (20 * n + d) \div (2 * d)

\* getOverallAccuracy over a stats object
OverallAccuracyOf(s) ==
    LET totalAttempts == Sum([i \in 1..Len(keys) |-> s[keys[i]].attempts], Len(keys))
        totalSuccesses == Sum([i \in 1..Len(keys) |-> s[keys[i]].successes], Len(keys))
    IN  IF totalAttempts > 0 THEN ToFixed1(totalSuccesses * 100, totalAttempts) ELSE NA

getOverallAccuracy == OverallAccuracyOf(stats)

\* getRollingAvg over a window
RollingAvgOf(w) ==
    IF Len(w) = 0 THEN NA ELSE ToFixed1(Sum(w, Len(w)), Len(w))

getRollingAvg == RollingAvgOf(reactionTimes)

(***************************************************************************)
(* Persistence and game flow.                                              *)
(***************************************************************************)
\* line 280: capacity of the rolling window
WindowCap == 4

\* saveStats of the stats object s: the file after the call; a failed write is
\* caught and logged and leaves the file as it was
saveStats(s, ok) == IF ok THEN FileOf(s) ELSE file

\* a nextRound that prompts a key without counting the round
nextRoundUncounted(u) ==
    /\ round' = round
    /\ currentKey' = chooseNextKey(u)
    /\ promptTime' = 0

\* nextRound, lines 243-248
nextRound(u) ==
    /\ round' = round + 1
    /\ currentKey' = chooseNextKey(u)
    /\ promptTime' = 0

\* displayFinalStats that saves before it counts the game
displayFinalStatsSavesFirst(ok) ==
    /\ file' = saveStats(stats, ok)
    /\ stats' = [stats EXCEPT !.meta.gamesPlayed = @ + 1]

\* displayFinalStats, lines 122-124: the state it changes
displayFinalStats(ok) ==
    /\ stats' = [stats EXCEPT !.meta.gamesPlayed = @ + 1]
    /\ file' = saveStats(stats', ok)

\* a correct press that compares bestTime the wrong way round
RecordSuccessBestReversed(s, reactionTime) ==
    [s EXCEPT !.attempts = @ + 1,
              !.successes = @ + 1,
              !.totalTime = @ + reactionTime,
              !.bestTime = IF @ = Null \/ reactionTime > @ THEN reactionTime ELSE @,
              !.worstTime = IF @ = Null \/ reactionTime > @ THEN reactionTime ELSE @]

\* lines 270-278: the KeyStat of the prompted key after a correct press
RecordSuccess(s, reactionTime) ==
    [s EXCEPT !.attempts = @ + 1,
              !.successes = @ + 1,
              !.totalTime = @ + reactionTime,
              !.bestTime = IF @ = Null \/ reactionTime < @ THEN reactionTime ELSE @,
              !.worstTime = IF @ = Null \/ reactionTime > @ THEN reactionTime ELSE @]

\* an incorrect press charged to the pressed key when that key is tracked
ChargedKeyPressed(str) == IF str \in KeySet THEN str ELSE currentKey

\* line 283: the key whose errors an incorrect press of str increments
ChargedKey(str) == currentKey

\* an incorrect press that counts the error without the attempt
RecordErrorUncounted(str) ==
    [stats EXCEPT ![ChargedKey(str)].errors = @ + 1]

\* lines 266 and 283: the stats object after an incorrect press of str
RecordError(str) ==
    [stats EXCEPT ![currentKey].attempts = @ + 1, ![ChargedKey(str)].errors = @ + 1]

\* a window that drops its newest entry (pop) instead of its oldest (shift)
PushWindowPops(w, reactionTime) ==
    LET pushed == Append(w, reactionTime)
    IN  IF Len(pushed) > WindowCap THEN SubSeq(pushed, 1, WindowCap) ELSE pushed

\* lines 279-280: push, then shift when longer than 4
PushWindow(w, reactionTime) ==
    LET pushed == Append(w, reactionTime)
    IN  IF Len(pushed) > WindowCap THEN Tail(pushed) ELSE pushed

\* lines 281 and 284: the content of a result message
ResultMessage(correct, str, reactionTime) ==
    [correct |-> correct, round |-> round, key |-> toUpperCase(currentKey),
     pressed |-> toUpperCase(str), ms |-> reactionTime]

\* a handler in which the failed write is not caught and ends the handler at
\* line 288
finishRoundStopsOnFailure(message, ok) ==
    /\ resultsLog' = Append(resultsLog, message)
    /\ file' = saveStats(stats', ok)
    /\ currentKey' = IF ok THEN NoKey ELSE currentKey
    /\ timers' = IF ok THEN timers + 1 ELSE timers

\* a handler that forgets setTimeout(nextRound, 100)
finishRoundForgetsTimer(message, ok) ==
    /\ resultsLog' = Append(resultsLog, message)
    /\ file' = saveStats(stats', ok)
    /\ currentKey' = NoKey
    /\ timers' = timers

\* a handler that forgets currentKey = null
finishRoundKeepsKey(message, ok) ==
    /\ resultsLog' = Append(resultsLog, message)
    /\ file' = saveStats(stats', ok)
    /\ currentKey' = currentKey
    /\ timers' = timers + 1

\* lines 286-291: log the message, save, clear the prompt, defer nextRound
finishRound(message, ok) ==
    /\ resultsLog' = Append(resultsLog, message)
    /\ file' = saveStats(stats', ok)
    /\ currentKey' = NoKey
    /\ timers' = timers + 1

\* lines 257-262: Ctrl+C in any state: the final stats, then process.exit()
interrupt(ok) ==
    /\ displayFinalStats(ok)
    /\ proc' = "exited"
    /\ UNCHANGED <<round, currentKey, promptTime, reactionTimes, resultsLog,
                   timers, loadedGames, draw,
                   truncated, terminal, screen>>

\* a handler that defers nextRound before it looks at currentKey
dropPressRearms ==
    /\ timers' = timers + 1
    /\ UNCHANGED <<stats, round, currentKey, promptTime, reactionTimes, resultsLog,
                   file, proc, loadedGames, draw,
                   truncated, terminal, screen>>

\* line 263: no key is prompted, the handler returns
dropPress == UNCHANGED vars

\* lines 265-291: a key event while a key is prompted
scorePress(ev, ok) ==
    LET reactionTime == ev.now - promptTime
    IN  IF ev.str = currentKey
        THEN /\ stats' = [stats EXCEPT ![currentKey] = RecordSuccess(@, reactionTime)]
             /\ reactionTimes' = PushWindow(reactionTimes, reactionTime)
             /\ finishRound(ResultMessage(TRUE, ev.str, reactionTime), ok)
             /\ UNCHANGED <<round, promptTime, proc, loadedGames, draw,
                   truncated, terminal, screen>>
        ELSE IF ev.str = Undefined
        THEN \* line 284: str.toUpperCase() throws and nothing catches it
             /\ stats' = RecordError(ev.str)
             /\ proc' = "crashed"
             /\ UNCHANGED <<round, currentKey, promptTime, reactionTimes,
                            resultsLog, file, timers, loadedGames, draw,
                   truncated, terminal, screen>>
        ELSE /\ stats' = RecordError(ev.str)
             /\ finishRound(ResultMessage(FALSE, ev.str, reactionTime), ok)
             /\ UNCHANGED <<round, promptTime, reactionTimes, proc, loadedGames, draw,
                   truncated, terminal, screen>>

\* the keypress handler, lines 256-292
keypress(ev, ok) ==
    /\ proc = "running"
    /\ IF ev.sequence = CtrlC THEN interrupt(ok)
       ELSE IF currentKey = NoKey THEN dropPress
       ELSE scorePress(ev, ok)

\* lines 295-296: renderUI(); nextRound() at the end of the module
start(u) ==
    /\ proc = "init"
    /\ proc' = "running"
    /\ nextRound(u)
    /\ UNCHANGED <<stats, reactionTimes, resultsLog, file, timers, loadedGames, draw,
                   truncated, terminal, screen>>

\* the event loop takes a callback deferred by setTimeout (line 291) off the
\* timer queue, which it does only while the process runs; cap bounds the session
timerFires(cap) ==
    /\ proc = "running"
    /\ timers > 0
    /\ round < cap
    /\ timers' = timers - 1

\* a callback that still runs after process.exit()
timeoutAfterExit(u, cap) ==
    /\ proc \in {"running", "exited"}
    /\ timers > 0
    /\ round < cap
    /\ timers' = timers - 1
    /\ nextRound(u)
    /\ UNCHANGED <<stats, reactionTimes, resultsLog, file, proc, loadedGames, draw,
                   truncated, terminal, screen>>

\* the callback of setTimeout(nextRound, 100), line 291; cap bounds the session
timeout(u, cap) ==
    /\ timerFires(cap)
    /\ nextRound(u)
    /\ UNCHANGED <<stats, reactionTimes, resultsLog, file, proc, loadedGames, draw,
                   truncated, terminal, screen>>

Startup == \E u \in RandomValues : start(u)

Keypress == \E ev \in KeyEvents, ok \in WriteOutcomes : keypress(ev, ok)

Timeout == \E u \in RandomValues : timeout(u, MaxRounds)

Next == Startup \/ Keypress \/ Timeout

Spec == Init /\ [][Next]_vars

\* Spec with the scheduling of the event loop: a callback deferred by
\* setTimeout (line 291, 100 ms) is run if the process keeps running. Timeout
\* is the only action of Next that takes a callback off the timer queue.
SpecFair == Init /\ [][Next]_vars /\ WF_timers(timerFires(MaxRounds))

(***************************************************************************)
(* SpecWindow: one long session of presses of q, to fill the rolling       *)
(* window past its capacity.  Every draw is 0 and every write succeeds.    *)
(***************************************************************************)
WindowEvents ==
    {KeyEvent(CtrlC, CtrlC, 50)}
    \cup {KeyEvent("q", "q", t) : t \in {100, 200, 300, 400, 500}}
    \cup {KeyEvent("f", "f", 300)}

StartupWindow == start(<<0, 1>>)

KeypressWindow == \E ev \in WindowEvents : keypress(ev, TRUE)

TimeoutWindow == timeout(<<0, 1>>, MaxWindowRounds)

NextWindow == StartupWindow \/ KeypressWindow \/ TimeoutWindow

SpecWindow == Init /\ [][NextWindow]_vars

(***************************************************************************)
(* SpecChoose: the walk of chooseNextKey on its own, over every vector of  *)
(* small integer weights and every draw on the half-unit grid of           *)
(* [0, totalWeight).  Weights and draw are held doubled, so that the draw  *)
(* 2j + 1 is the midpoint of the unit cell [j, j + 1).                     *)
(***************************************************************************)
\* number of keys of a weight vector
MaxDrawKeys == 3
\* largest weight of a weight vector
MaxDrawWeight == 3

Doubled(weights) == [i \in 1..Len(weights) |-> 2 * weights[i]] \o <<>>

InitChoose ==
    /\ file = NoFile
    /\ stats = LoadStats(file)
    /\ round = 0
    /\ currentKey = NoKey
    /\ promptTime = Null
    /\ reactionTimes = <<>>
    /\ resultsLog = <<>>
    /\ timers = 0
    /\ proc = "init"
    /\ loadedGames = stats.meta.gamesPlayed
    /\ \E n \in 1..MaxDrawKeys :
          \E weights \in [1..n -> 1..MaxDrawWeight] :
             draw = [weights |-> weights, rnd |-> 0, index |-> 0]
    /\ NoRender

\* one run of lines 234-239 on the weights, with rnd = r2 / 2
Draw ==
    /\ \E r2 \in 0..(2 * TotalWeight(draw.weights) - 1) :
          draw' = [draw EXCEPT !.rnd = r2,
                               !.index = WalkWeights(Doubled(draw.weights), r2, 1)]
    /\ UNCHANGED <<stats, round, currentKey, promptTime, reactionTimes, resultsLog,
                   file, timers, proc, loadedGames, truncated, terminal, screen>>

NextChoose == Draw

SpecChoose == InitChoose /\ [][NextChoose]_vars

(***************************************************************************)
(* Properties of the round controller.                                     *)
(***************************************************************************)
\* a key event other than Ctrl+C is handled
PressStep == \E ev \in KeyEvents, ok \in WriteOutcomes :
                ev.sequence # CtrlC /\ keypress(ev, ok)

\* Ctrl+C is handled
InterruptStep == \E ev \in KeyEvents, ok \in WriteOutcomes :
                    ev.sequence = CtrlC /\ keypress(ev, ok)

\* C1: a key press other than Ctrl+C that arrives while no key is prompted is
\* dropped: no KeyStat, not gamesPlayed, not the round number, the rolling window,
\* the log or the file changes, and no further nextRound is deferred.
C1_IdlePressDropped ==
    [][(currentKey = NoKey /\ PressStep)
        => UNCHANGED <<stats, round, currentKey, reactionTimes, resultsLog, file,
                       timers, proc>>]_vars

\* C1 witness: a scored round has ended and its deferred nextRound has not run,
\* so a press that arrives now finds no prompted key.
C1_Witness ==
    /\ proc = "running"
    /\ currentKey = NoKey
    /\ timers = 1
    /\ Len(resultsLog) >= 1
    /\ ENABLED (currentKey = NoKey /\ PressStep)

\* C2: nextRound runs only while no key is prompted, it adds exactly 1 to the
\* round number and leaves a tracked key prompted; at most one deferred
\* nextRound is pending at any time.
C2_NextRoundFromIdle ==
    /\ [](timers <= 1)
    /\ [][(round' # round \/ currentKey' \in KeySet \ {currentKey} \/ timers' < timers)
            => /\ currentKey = NoKey
               /\ round' = round + 1
               /\ currentKey' \in KeySet]_vars

\* C2 witness: a deferred nextRound has run after a scored round.
C2_Witness ==
    /\ proc = "running"
    /\ round = 2
    /\ currentKey \in KeySet
    /\ timers = 0
    /\ Len(resultsLog) = 1

\* C3: Ctrl+C is handled in every state of a running session; it changes no
\* KeyStat and adds no log entry, what it writes is the in-memory stats with
\* gamesPlayed one higher, and after it nothing changes any more: no round
\* starts, a pending deferred nextRound included.
C3_ShutdownAbandonsRound ==
    /\ [](proc = "running" => ENABLED InterruptStep)
    /\ [][InterruptStep
            => /\ proc' = "exited"
               /\ \A k \in KeySet : stats'[k] = stats[k]
               /\ resultsLog' = resultsLog
               /\ round' = round
               /\ \/ file' = file
                  \/ file' = FileOf([stats EXCEPT !.meta.gamesPlayed = @ + 1])]_vars
    /\ [][proc = "exited" => UNCHANGED vars]_vars

\* C3 witness: the session was shut down while a key was prompted in a later
\* round, and the file holds the stats as they were, with the game counted.
C3_Witness ==
    /\ proc = "exited"
    /\ currentKey \in KeySet
    /\ round = 2
    /\ Len(resultsLog) = 1
    /\ file = FileOf(stats)
    /\ stats.meta.gamesPlayed = loadedGames + 1

\* C4: gamesPlayed changes only in the handling of Ctrl+C, by exactly 1: it is
\* the loaded value until then and the loaded value plus 1 after, and a write
\* at shutdown persists the loaded value plus 1.
C4_GamesPlayedOncePerRun ==
    /\ [](stats.meta.gamesPlayed = IF proc = "exited" THEN loadedGames + 1 ELSE loadedGames)
    /\ [][stats'.meta.gamesPlayed # stats.meta.gamesPlayed
            => /\ InterruptStep
               /\ stats'.meta.gamesPlayed = stats.meta.gamesPlayed + 1]_vars
    /\ [][(InterruptStep /\ file' # file)
            => JSONparse(file'.json).meta.gamesPlayed = loadedGames + 1]_vars
    /\ [][(file' # file /\ ~InterruptStep)
            => JSONparse(file'.json).meta.gamesPlayed = loadedGames]_vars

\* C4 witness: a session that loaded gamesPlayed = 2 scored two rounds and was
\* shut down; the file holds 3.
C4_Witness ==
    /\ proc = "exited"
    /\ loadedGames = 2
    /\ Len(resultsLog) = 2
    /\ file.exists
    /\ JSONparse(file.json).meta.gamesPlayed = 3

(***************************************************************************)
(* Properties of the statistics.                                           *)
(***************************************************************************)
\* the reaction times of the correct presses of a log, oldest first
RECURSIVE CorrectTimes(_)
CorrectTimes(log) ==
    IF log = <<>> THEN <<>>
    ELSE LET rest == CorrectTimes(SubSeq(log, 1, Len(log) - 1))
             last == log[Len(log)]
         IN  IF last.correct THEN Append(rest, last.ms) ELSE rest

LastOf(seq, n) == SubSeq(seq, Len(seq) - n + 1, Len(seq))

\* a key event of SpecWindow that is not the prompted key is handled
IncorrectWindowStep ==
    /\ currentKey # NoKey
    /\ \E ev \in WindowEvents :
          ev.sequence # CtrlC /\ ev.str # currentKey /\ keypress(ev, TRUE)

\* C5: the rolling window never holds more than 4 entries; it is the reaction
\* times of the last min(4, n) of the n correct presses of the session, oldest
\* first (after correct times 100, 200, 300, 400, 500 it is 200, 300, 400, 500
\* and its average is 350.0); an incorrect press leaves it as it was.
C5_RollingWindowFifo ==
    /\ [](LET times == CorrectTimes(resultsLog)
              n == IF Len(times) < 4 THEN Len(times) ELSE 4
          IN  /\ Len(reactionTimes) <= 4
              /\ reactionTimes = LastOf(times, n)
              /\ times = <<100, 200, 300, 400, 500>>
                    => /\ reactionTimes = <<200, 300, 400, 500>>
                       /\ getRollingAvg = 3500)
    /\ [][IncorrectWindowStep => reactionTimes' = reactionTimes]_vars

\* C5 witness: five correct presses with times 100, 200, 300, 400, 500 and no
\* other round; the oldest time has been evicted.
C5_Witness ==
    /\ CorrectTimes(resultsLog) = <<100, 200, 300, 400, 500>>
    /\ Len(resultsLog) = 5
    /\ reactionTimes = <<200, 300, 400, 500>>
    /\ getRollingAvg = 3500

\* a key event that is not the prompted key is handled while a key is prompted
IncorrectStep ==
    /\ currentKey # NoKey
    /\ \E ev \in KeyEvents, ok \in WriteOutcomes :
          ev.sequence # CtrlC /\ ev.str # currentKey /\ keypress(ev, ok)

\* C6: an incorrect press while a key is prompted adds 1 to the attempts and to
\* the errors of the prompted key, leaves its successes, totalTime, bestTime
\* and worstTime alone, and changes no field of any other key, the pressed key
\* included when it is tracked.
C6_IncorrectChargesPrompted ==
    [][IncorrectStep
        => /\ stats'[currentKey].attempts = stats[currentKey].attempts + 1
           /\ stats'[currentKey].errors = stats[currentKey].errors + 1
           /\ stats'[currentKey].successes = stats[currentKey].successes
           /\ stats'[currentKey].totalTime = stats[currentKey].totalTime
           /\ stats'[currentKey].bestTime = stats[currentKey].bestTime
           /\ stats'[currentKey].worstTime = stats[currentKey].worstTime
           /\ \A k \in KeySet \ {currentKey} : stats'[k] = stats[k]]_vars

\* C6 witness: q was prompted and the tracked key f was pressed: the error is
\* on q and f is untouched.
C6_Witness ==
    /\ Len(resultsLog) = 1
    /\ ~resultsLog[1].correct
    /\ resultsLog[1].key = "Q"
    /\ resultsLog[1].pressed = "F"
    /\ stats["q"].attempts = 1
    /\ stats["q"].errors = 1
    /\ stats["f"] = ZeroStat

\* the reaction times of the correct presses of key k in a log
KeyTimes(log, k) ==
    {log[i].ms : i \in {j \in 1..Len(log) : log[j].correct /\ log[j].key = toUpperCase(k)}}

SetMin(S) == CHOOSE x \in S : \A y \in S : x <= y

SetMax(S) == CHOOSE x \in S : \A y \in S : x >= y

\* C7: from a zeroed store, bestTime is the least and worstTime the greatest
\* reaction time of the correct presses scored for the key, both null when
\* there is none; so bestTime <= worstTime when both are present.
C7_BestWorstAreMinMax ==
    \A k \in KeySet :
        LET times == KeyTimes(resultsLog, k)
        IN  /\ times = {} => stats[k].bestTime = Null /\ stats[k].worstTime = Null
            /\ times # {} => /\ stats[k].bestTime = SetMin(times)
                              /\ stats[k].worstTime = SetMax(times)
                              /\ stats[k].bestTime <= stats[k].worstTime

\* C7 witness: correct presses of q in 120, 80 and 200 ms leave best 80, worst 200.
C7_Witness ==
    /\ Len(resultsLog) = 3
    /\ \A i \in 1..3 : resultsLog[i].correct /\ resultsLog[i].key = "Q"
    /\ <<resultsLog[1].ms, resultsLog[2].ms, resultsLog[3].ms>> = <<120, 80, 200>>
    /\ stats["q"].bestTime = 80
    /\ stats["q"].worstTime = 200

SumOver(field) ==
    LET RECURSIVE Add(_)
        Add(S) == IF S = {} THEN 0
                  ELSE LET k == CHOOSE x \in S : TRUE
                       IN  stats[k][field] + Add(S \ {k})
    IN  Add(KeySet)

\* C8: getOverallAccuracy is "N/A" exactly when no attempt is recorded on any
\* key; otherwise it is, in tenths, a value T of 0..1000 within half a tenth of
\* 100 * successes / attempts summed over the keys.
C8_OverallAccuracy ==
    LET attempts == SumOver("attempts")
        successes == SumOver("successes")
        T == getOverallAccuracy
        diff == T * attempts - 1000 * successes
    IN  /\ (T = NA) <=> (attempts = 0)
        /\ attempts > 0 => /\ T \in 0..1000
                           /\ 2 * diff <= attempts
                           /\ 0 - 2 * diff <= attempts

\* C8 witness: 2 successes in 3 attempts give 66.7.
C8_Witness ==
    /\ SumOver("attempts") = 3
    /\ SumOver("successes") = 2
    /\ getOverallAccuracy = 667

(***************************************************************************)
(* Properties of the selection.                                            *)
(***************************************************************************)
\* the sum of the first n weights
Cumulative(weights, n) == Sum(weights, n)

\* C9: every tracked key has weight >= 100, and 600 when it has no success and
\* no error; chooseNextKey returns a tracked key for every draw; and for every
\* tracked key some draw in [0, totalWeight) makes chooseNextKey return it
\* (here: the midpoint of the key's stretch of the walk).
C9_NoKeyStarved ==
    LET weights == Weights
        total == TotalWeight(weights)
        doubled == Doubled(weights)
    IN  /\ \A k \in KeySet :
              LET w == getKeyWeight(k)
              IN  /\ w[1] >= 100 * w[2]
                  /\ (stats[k].successes = 0 /\ stats[k].errors = 0) => w = <<600, 1>>
        /\ \A u \in RandomValues \cup {<<j, 8>> : j \in 0..7} : chooseNextKey(u) \in KeySet
        /\ \A i \in 1..Len(keys) :
              \E r2 \in {2 * Cumulative(weights, i - 1) + weights[i]} :
                 /\ 0 <= r2
                 /\ r2 < 2 * total
                 /\ keys[WalkWeights(doubled, r2, 1)] = keys[i]

\* C9 witness: q is fast and accurate (two successes, no error), f has an
\* error, and the other keys are untouched.
C9_Witness ==
    /\ stats["q"].successes = 2
    /\ stats["q"].errors = 0
    /\ stats["f"].errors = 1
    /\ getKeyWeight("q")[1] < 600 * getKeyWeight("q")[2]
    /\ getKeyWeight("f") = <<700, 1>>
    /\ getKeyWeight("z") = <<600, 1>>

\* the number of unit cells [j, j + 1) of [0, totalWeight) whose draws return
\* index k: the measure of the draws that return k
Share(weights, k) ==
    Cardinality({j \in 0..(TotalWeight(weights) - 1) :
                    WalkWeights(Doubled(weights), 2 * j + 1, 1) = k})

\* C10: with the draw uniform on [0, totalWeight), the share of the draws for
\* which the walk returns key k is weight(k) / totalWeight for every key, the
\* shares are all equal exactly when the weights are all equal, and a draw
\* returns the key whose stretch (sum of the weights before it, that sum plus
\* its own weight] holds the draw (the draw 0 returns the first key).
C10_ProportionalToWeight ==
    draw.weights # <<>> =>
        LET weights == draw.weights
            n == Len(weights)
            total == TotalWeight(weights)
        IN  /\ \A k \in 1..n : Share(weights, k) * total = weights[k] * total
            /\ (\A k, l \in 1..n : Share(weights, k) = Share(weights, l))
                  <=> (\A k, l \in 1..n : weights[k] = weights[l])
            /\ draw.index # 0 =>
                  /\ draw.index \in 1..n
                  /\ draw.rnd <= 2 * Cumulative(weights, draw.index)
                  /\ \/ draw.rnd > 2 * Cumulative(weights, draw.index - 1)
                     \/ draw.rnd = 0 /\ draw.index = 1

\* C10 witness: weights 1, 3, 2 and the draw 1.5: the walk returns the second
\* key, whose share is 3 of 6.
C10_Witness ==
    /\ draw.weights = <<1, 3, 2>>
    /\ draw.rnd = 3
    /\ draw.index = 2
    /\ Share(draw.weights, 2) = 3

(***************************************************************************)
(* SpecLoad: sessions that start from any stats.json: absent, not JSON,    *)
(* JSON that is no object, an object of an older format, or a file the     *)
(* program wrote.                                                          *)
(***************************************************************************)
\* rounds started in one session of SpecLoad
MaxLoadRounds == 2

\* a file written before bestTime and worstTime existed
OlderFile ==
    FileWith(JsonObject(
        [k \in {"meta", "q"} |->
            IF k = "meta" THEN StringifyEntry([gamesPlayed |-> 1])
            ELSE StringifyEntry([attempts |-> 1, successes |-> 1,
                                 totalTime |-> 90, errors |-> 0])]))

LoadFiles ==
    InitialFiles
    \cup {FileWith(JsonInvalid), FileWith(JsonNull), FileWith(JsonNumber(5)),
          FileWith(JsonString("x")), FileWith(JsonArray(<<>>)), OlderFile}

\* the module after lines 17-39: loaded, or ended by the TypeError of the load
InitLoad ==
    /\ file \in LoadFiles
    /\ stats = IF LoadThrows(file) THEN JSONparse(file.json) ELSE LoadStats(file)
    /\ proc = IF LoadThrows(file) THEN "crashed" ELSE "init"
    /\ loadedGames = IF LoadThrows(file) THEN 0 ELSE stats.meta.gamesPlayed
    /\ round = 0
    /\ currentKey = NoKey
    /\ promptTime = Null
    /\ reactionTimes = <<>>
    /\ resultsLog = <<>>
    /\ timers = 0
    /\ draw = NoDraw
    /\ NoRender

TimeoutLoad == \E u \in RandomValues : timeout(u, MaxLoadRounds)

NextLoad == Startup \/ Keypress \/ TimeoutLoad

SpecLoad == InitLoad /\ [][NextLoad]_vars

(***************************************************************************)
(* Properties of persistence.                                              *)
(***************************************************************************)
\* C11: in every state of a live session, saving the stats object and loading
\* the file that was written gives the stats object back: same gamesPlayed,
\* same six fields of every tracked key.
C11_RoundTrip ==
    proc \in {"init", "running", "exited"} => LoadStats(FileOf(stats)) = stats

\* C12: when stats.json is absent, is not JSON, or is JSON that is no object,
\* startup completes with a zeroed KeyStat for every tracked key and
\* gamesPlayed 0, and the first round can start.
C12_LoadNeverTerminates ==
    (round = 0 /\ (~file.exists \/ file.json.type # "object"))
        => /\ proc = "init"
           /\ \A k \in KeySet : stats[k] = ZeroStat
           /\ stats.meta.gamesPlayed = 0
           /\ ENABLED Startup

\* a key event with a character is handled while a key is prompted, and the
\* write of its saveStats fails
FailedSaveStep ==
    /\ currentKey # NoKey
    /\ \E ev \in KeyEvents :
          ev.sequence # CtrlC /\ ev.str # Undefined /\ keypress(ev, FALSE)

\* the same key events with a write that succeeds
SavedStep ==
    /\ currentKey # NoKey
    /\ \E ev \in KeyEvents :
          ev.sequence # CtrlC /\ ev.str # Undefined /\ keypress(ev, TRUE)

\* C13: a failed write in saveStats leaves the file as it was and changes
\* nothing else: the session goes on, the stats keep the attempt of the round,
\* the log has its entry, the prompt is cleared and one nextRound is deferred,
\* as when the write succeeds; and every write that succeeds, in a later round
\* or at shutdown, leaves a file from which the whole in-memory stats load.
C13_FailedWriteNonFatal ==
    /\ [][FailedSaveStep
            => /\ file' = file
               /\ proc' = "running"
               /\ stats'[currentKey].attempts = stats[currentKey].attempts + 1
               /\ Len(resultsLog') = Len(resultsLog) + 1
               /\ currentKey' = NoKey
               /\ timers' = timers + 1
               /\ round' = round]_vars
    /\ [][SavedStep
            => /\ proc' = "running"
               /\ Len(resultsLog') = Len(resultsLog) + 1
               /\ currentKey' = NoKey
               /\ timers' = timers + 1]_vars
    /\ [][file' # file => (file'.exists /\ LoadStats(file') = stats')]_vars

\* C13 witness: the write of the first round failed with no file on disk, and
\* the session went on: the round is in the stats and the log, and the second
\* round is prompted.
C13_Witness ==
    /\ proc = "running"
    /\ round = 2
    /\ currentKey \in KeySet
    /\ Len(resultsLog) = 1
    /\ ~file.exists
    /\ \E k \in KeySet : stats[k].attempts = 1

\* C14: every key event other than Ctrl+C that arrives while a key is prompted,
\* a special key that carries no character included, is scored to completion:
\* the process keeps running, the prompted key gets one more attempt, the log
\* gets exactly one entry, the stats are saved (or the write failed and the
\* file is as it was), the prompt is cleared and one nextRound is deferred.
C14_EveryPressScored ==
    [][(currentKey # NoKey /\ PressStep)
          => /\ proc' = "running"
             /\ stats'[currentKey].attempts = stats[currentKey].attempts + 1
             /\ Len(resultsLog') = Len(resultsLog) + 1
             /\ (file' = file \/ file' = FileOf(stats'))
             /\ currentKey' = NoKey
             /\ timers' = timers + 1]_vars

\* C15: the session never gets stuck. After every scored press no key is
\* prompted and exactly one nextRound is deferred; while the process runs with
\* no key prompted, one nextRound is deferred (no key prompted and nothing
\* deferred is unreachable between the first round and the shutdown); and from
\* such a state the deferred nextRound eventually runs and prompts a key,
\* unless Ctrl+C ends the session first.
C15_NeverStuck ==
    /\ [][Len(resultsLog') > Len(resultsLog)
            => (proc' = "running" /\ currentKey' = NoKey /\ timers' = 1)]_vars
    /\ []((proc = "running" /\ currentKey = NoKey) => timers = 1)
    /\ ((proc = "running" /\ currentKey = NoKey /\ round < MaxRounds)
            ~> (currentKey \in KeySet \/ proc = "exited"))

\* C15 witness: a press was scored, its deferred nextRound ran, and the next
\* key is prompted with nothing left pending.
C15_Witness ==
    /\ proc = "running"
    /\ Len(resultsLog) = 1
    /\ round = 2
    /\ currentKey \in KeySet
    /\ timers = 0

(***************************************************************************)
(* Implicit invariants of the counters.                                    *)
(***************************************************************************)

\* C19: in every reachable state every tracked key has
\* successes + errors = attempts (so successes <= attempts), and its bestTime
\* and its worstTime are null exactly when its successes are 0.
C19_CountersConsistent ==
    \A k \in KeySet :
        /\ stats[k].successes + stats[k].errors = stats[k].attempts
        /\ stats[k].successes <= stats[k].attempts
        /\ (stats[k].bestTime = Null) <=> (stats[k].successes = 0)
        /\ (stats[k].worstTime = Null) <=> (stats[k].successes = 0)

\* C19 witness: one key has a correct press and an incorrect press, another
\* key was never prompted.
C19_Witness ==
    /\ \E k \in KeySet : stats[k].successes >= 1 /\ stats[k].errors >= 1
    /\ \E k \in KeySet : stats[k].attempts = 0 /\ stats[k].bestTime = Null

\* the attempts of all tracked keys together
TotalAttempts(s) == Sum([i \in 1..Len(keys) |-> s[keys[i]].attempts], Len(keys))

\* C20: each round is scored at most once and the counters stay in step.
\* While the process runs or after Ctrl+C, once the first round has started:
\* round is the number of log entries plus 1 when a key is prompted and the
\* number of log entries when none is; every step adds to the log exactly as
\* many entries as it adds attempts over all keys (so the log, empty at the
\* load, counts the increase of the attempts in this session); and a step adds
\* at most one entry, and only for the round that was prompted.
C20_CountersInStep ==
    /\ []((proc \in {"running", "exited"} /\ currentKey # NoKey)
            => round = Len(resultsLog) + 1)
    /\ []((proc \in {"running", "exited"} /\ currentKey = NoKey /\ round > 0)
            => round = Len(resultsLog))
    /\ [](proc = "init" => (resultsLog = <<>> /\ round = 0))
    /\ [][proc' \in {"running", "exited"}
            => /\ TotalAttempts(stats') - TotalAttempts(stats)
                    = Len(resultsLog') - Len(resultsLog)
               /\ Len(resultsLog') \in {Len(resultsLog), Len(resultsLog) + 1}
               /\ Len(resultsLog') # Len(resultsLog)
                    => /\ currentKey # NoKey
                       /\ resultsLog'[Len(resultsLog')].round = round]_vars

\* C20 witness: the store was loaded with one attempt on record, one round of
\* this session is scored and the second is prompted.
C20_Witness ==
    /\ proc = "running"
    /\ round = 2
    /\ currentKey \in KeySet
    /\ Len(resultsLog) = 1
    /\ TotalAttempts(stats) = 2

(***************************************************************************)
(* SpecTruncate: truncateAnsiPreserve on its own, as line 209 calls it:    *)
(* on a plain line, a line styled by chalk and a line with a style inside, *)
(* of every length up to MaxLineLen, at the width of the right column of   *)
(* terminals from 59 columns upwards.                                      *)
(***************************************************************************)
\* printable characters of a line
MaxLineLen == 15
\* the widest right column
MaxWidth == 11

\* ESC [ params m
Sgr(params) == <<ESC, "[">> \o params \o <<"m">>

\* the text of the lines: brackets, digits and the letter m are printable
\* characters too
Letters == <<"R", "o", "u", "n", "d", " ", "1", ":", " ", "m", "[", "Q", "]", "3", "9", "m", "s">>

TextOf(n) == [i \in 1..n |-> Letters[((i - 1) % Len(Letters)) + 1]]

\* chalk.green.bold(text), as lines 281 builds a result message
GreenBold(text) ==
    Sgr(<<"3", "2">>) \o Sgr(<<"1">>) \o text \o Sgr(<<"2", "2">>) \o Sgr(<<"3", "9">>)

\* text with a styled part inside, as line 175 builds the prompt
StyledInside(text) ==
    LET k == Len(text) \div 2
    IN  SubSeq(text, 1, k) \o Sgr(<<"4", "2">>) \o SubSeq(text, k + 1, Len(text))
            \o Sgr(<<"4", "9">>)

TruncateLines ==
    UNION {{TextOf(n), GreenBold(TextOf(n)), StyledInside(TextOf(n))} : n \in 0..MaxLineLen}

\* process.stdout.columns
TruncateColumns == (leftColumnWidth - 1)..(leftColumnWidth + 1 + MaxWidth)

InitTruncate ==
    /\ file = NoFile
    /\ stats = LoadStats(file)
    /\ round = 0
    /\ currentKey = NoKey
    /\ promptTime = Null
    /\ reactionTimes = <<>>
    /\ resultsLog = <<>>
    /\ timers = 0
    /\ proc = "init"
    /\ loadedGames = stats.meta.gamesPlayed
    /\ draw = NoDraw
    /\ NoRender

\* line 209 for one line and one terminal
Truncate ==
    /\ truncated = NoLine
    /\ \E str \in TruncateLines, columns \in TruncateColumns :
          truncated' = [str |-> str,
                        width |-> getRightColumnWidth(columns),
                        result |-> truncateAnsiPreserve(str, getRightColumnWidth(columns))]
    /\ UNCHANGED <<stats, round, currentKey, promptTime, reactionTimes, resultsLog,
                   file, timers, proc, loadedGames, draw, terminal, screen>>

NextTruncate == Truncate

SpecTruncate == InitTruncate /\ [][NextTruncate]_vars

(***************************************************************************)
(* SpecRender: renderUI on terminals of every height up to MaxRows, at the *)
(* start of the session and after each result message pushed to the log.   *)
(***************************************************************************)
\* process.stdout.rows
MaxRows == 24
\* result messages pushed in one session of SpecRender
MaxLogLines == 3

\* chalk.red.bold(text), as line 284 builds a result message
RedBold(text) ==
    Sgr(<<"3", "1">>) \o Sgr(<<"1">>) \o text \o Sgr(<<"2", "2">>) \o Sgr(<<"3", "9">>)

\* result messages: a short correct one and a longer incorrect one
RenderLines == {GreenBold(TextOf(8)), RedBold(TextOf(12))}

\* process.stdout: a narrow right column and the 80 columns of a default terminal
Terminals ==
    {[rows |-> h, columns |-> c] : h \in 1..MaxRows, c \in {leftColumnWidth + 6, 80}}

InitRender ==
    /\ file = NoFile
    /\ stats = LoadStats(file)
    /\ round = 0
    /\ currentKey = NoKey
    /\ promptTime = Null
    /\ reactionTimes = <<>>
    /\ resultsLog = <<>>
    /\ timers = 0
    /\ proc = "init"
    /\ loadedGames = stats.meta.gamesPlayed
    /\ draw = NoDraw
    /\ truncated = NoLine
    /\ terminal \in Terminals
    /\ screen = Blank

\* line 295: the first renderUI()
RenderStart ==
    /\ screen = Blank
    /\ screen' = renderUI(resultsLog, terminal)
    /\ UNCHANGED <<stats, round, currentKey, promptTime, reactionTimes, resultsLog,
                   file, timers, proc, loadedGames, draw, truncated, terminal>>

\* lines 286 and 289: a result message is pushed and the screen is drawn again
PushAndRender ==
    /\ screen # Blank
    /\ Len(resultsLog) < MaxLogLines
    /\ \E line \in RenderLines : resultsLog' = Append(resultsLog, line)
    /\ screen' = renderUI(resultsLog', terminal)
    /\ UNCHANGED <<stats, round, currentKey, promptTime, reactionTimes,
                   file, timers, proc, loadedGames, draw, truncated, terminal>>

NextRender == RenderStart \/ PushAndRender

SpecRender == InitRender /\ [][NextRender]_vars

(***************************************************************************)
(* Properties of the layout.                                               *)
(***************************************************************************)

\* the first n characters of s, none when n <= 0
FirstChars(s, n) == [i \in 1..(IF n < Len(s) THEN n ELSE Len(s)) |-> s[i]]

\* what C16 says of one call: str, the width w and the string returned
TruncateAsStated(str, w, result) ==
    LET plain == stripAnsi(str)
    IN  IF Len(plain) > w
        THEN /\ Len(stripAnsi(result)) = w
             /\ stripAnsi(result) = FirstChars(plain, w - 1) \o <<Ellipsis>>
             /\ result = LeadingStyles(str) \o FirstChars(plain, w - 1) \o <<Ellipsis>>
        ELSE result = str

\* C16: for every width w, when the printable length of str exceeds w the
\* result of truncateAnsiPreserve(str, w) has printable width exactly w: the
\* leading style sequences of str, its first w - 1 printable characters and
\* one ellipsis; otherwise the result is str unchanged.
C16_TruncateToWidth ==
    truncated # NoLine
        => TruncateAsStated(truncated.str, truncated.width, truncated.result)

Min(a, b) == IF a < b THEN a ELSE b

Max(a, b) == IF a > b THEN a ELSE b

\* the log entries drawn: the lines of the right column below its two header lines
LogLinesDrawn == Len(screen.right) - 2

\* C17: for every terminal height h and every log, renderUI draws
\* min(length of the log, max(0, h - 2)) log entries, they are the last entries
\* of the log, in order (each cut to the width of the right column), and
\* rendering removes no entry from the log.
C17_LogSliceFits ==
    /\ [](screen # Blank =>
            LET len == Len(resultsLog)
                n == LogLinesDrawn
            IN  /\ n = Min(len, Max(0, terminal.rows - 2))
                /\ \A i \in 1..n :
                      screen.right[2 + i].text
                        = truncateAnsiPreserve(resultsLog[len - n + i],
                                               getRightColumnWidth(terminal.columns)))
    /\ [][screen' # screen
            => (Len(resultsLog') >= Len(resultsLog)
                /\ SubSeq(resultsLog', 1, Len(resultsLog)) = resultsLog)]_vars

\* C18: for every terminal height h, renderUI draws the separator in column 61,
\* the column right of the 60-column left pane, on every row 1..h.
C18_SeparatorFullHeight ==
    screen # Blank =>
        \A r \in 1..terminal.rows :
            \E w \in screen.separator : w.row = r /\ w.column = leftColumnWidth + 1
====
